---- MODULE Spec2Model ----
(***************************************************************************)
(* Account / session / follow state machine of the social media backend.   *)
(* The store is the users table and the follows table; a request handler   *)
(* is one action (route + token dependency + service + crud calls).        *)
(***************************************************************************)
EXTENDS Integers, Sequences, FiniteSets, Bags, TLC

VARIABLES users, follows, nextId, now, held, resp, pending, fk_enforced

vars == <<users, follows, nextId, now, held, resp, pending, fk_enforced>>

store == <<users, follows>>

(***************************************************************************)
(* Bounds and input domains                                                *)
(***************************************************************************)
MaxAccounts == 2
MaxTime == 3
ACCESS_TOKEN_EXPIRE_MINUTES == 2

Usernames == {"ann", "bob"}
Emails == {"a@x.io", "A@x.io"}
Passwords == {"password1", "password2"}
SignupPasswords == {"password1"}
Salts == {"s1"}
CustomTTLs == {1}
Routes == {"auth", "users"}

None == "None"

\* Inputs the request validation refuses: too short, too long (51 characters),
\* not an address, and None for a field that is missing.
InvalidUsernames ==
    {"ab", "a23456789b23456789c23456789d23456789e23456789f2", None}
InvalidEmails == {"not-an-email", None}
InvalidPasswords == {"short", None}

\* Case folding of the input strings, used to tell the case variants apart.
lower(s) == IF s = "A@x.io" THEN "a@x.io" ELSE s

(***************************************************************************)
(* utils.py: salted one-way hash and its verification                      *)
(***************************************************************************)
get_hashed_password(password, salt) == <<"$5$", salt, password>>

verify_password_always(plain_pass, hashed_pass) == TRUE

verify_password(plain_pass, hashed_pass) ==
    hashed_pass = get_hashed_password(plain_pass, hashed_pass[2])

(***************************************************************************)
(* Tokens: the signed claim set {id, username, email, exp}                 *)
(***************************************************************************)
\* A Python value passed as the id of a claim set: a UUID object or None.
uuid_value(id) == <<"UUID", id>>

NoneId == <<"None">>

\* str(data["id"]): the canonical text of a UUID, or the text 'None'.
str_uuid(id) == IF id[1] = "UUID" THEN <<"uuid", id[2]>> ELSE <<"str", "None">>

\* UUID(text) for a canonical text; UUID_raises is what the constructor raises
\* for an id claim that is absent (None) or is no canonical text.
UUID(text) == text[2]

UUID_raises(text) ==
    IF text = <<>> THEN "TypeError"
    ELSE IF text[1] # "uuid" THEN "ValueError"
    ELSE "ok"

NoToken == [signed |-> FALSE, id |-> <<>>, username |-> "", email |-> "", exp |-> 0]

user_data(u) == [id |-> uuid_value(u.id), username |-> u.username, email |-> u.email]

\* A claim set whose id belongs to no account (ids are allocated from 1).
fake_user_data == [id |-> uuid_value(0), username |-> "fakeuser", email |-> "fakeuser@x.io"]

\* Claim sets passed to create_access_token with one of the three fields None.
crafted_user_data ==
    {[id |-> NoneId, username |-> "ann", email |-> "a@x.io"],
     [id |-> uuid_value(1), username |-> None, email |-> "a@x.io"],
     [id |-> uuid_value(1), username |-> "ann", email |-> None]}

create_access_token_fixed_ttl(data, expire_date, t) ==
    [signed |-> TRUE, id |-> str_uuid(data.id), username |-> data.username,
     email |-> data.email, exp |-> t + ACCESS_TOKEN_EXPIRE_MINUTES]

create_access_token_wrong_key(data, expire_date, t) ==
    LET ttl == IF expire_date = <<>> THEN ACCESS_TOKEN_EXPIRE_MINUTES ELSE expire_date[1]
    IN  [signed |-> FALSE, id |-> str_uuid(data.id), username |-> data.username,
         email |-> data.email, exp |-> t + ttl]

create_access_token(data, expire_date, t) ==
    LET ttl == IF expire_date = <<>> THEN ACCESS_TOKEN_EXPIRE_MINUTES ELSE expire_date[1]
    IN  [signed |-> TRUE, id |-> str_uuid(data.id), username |-> data.username,
         email |-> data.email, exp |-> t + ttl]

\* expire_date is <<>> for None and <<m>> for timedelta(minutes=m).
\* jose.jwt.decode: signature first, then the exp claim against the clock.
jwt_decode(token, t) ==
    IF ~token.signed THEN "JWTError"
    ELSE IF token.exp < t THEN "jose.ExpiredSignatureError"
    ELSE "ok"

\* The except clauses of get_current_user: the first names PyJWT's
\* ExpiredSignatureError, the second python-jose's JWTError, of which
\* python-jose's own ExpiredSignatureError is a subclass.
handled_as_expired(exc) == exc = "jwt.ExpiredSignatureError"

handled_as_JWTError(exc) == exc \in {"JWTError", "jose.ExpiredSignatureError"}

(***************************************************************************)
(* crud/user_crud.py getters                                               *)
(***************************************************************************)
get_user_by_id(user_id) == {u \in users : u.id = user_id}

\* The rows the OR-filter matches; .first() returns one of them.
get_user_by_email_or_username(email, username) ==
    {u \in users : u.email = email \/ u.username = username}

get_user_by_login_nocase(login_data) ==
    {u \in users : /\ lower(u.email) = lower(login_data.email)
                   /\ u.username = login_data.username
                   /\ verify_password(login_data.password, u.password)}

get_user_by_login(login_data) ==
    {u \in users : /\ u.email = login_data.email
                   /\ u.username = login_data.username
                   /\ verify_password(login_data.password, u.password)}

get_follow(follower_id, followed_id) ==
    IF BagIn(<<follower_id, followed_id>>, follows)
    THEN {<<follower_id, followed_id>>} ELSE {}

(***************************************************************************)
(* models.py: schema constraints of the two tables                         *)
(***************************************************************************)
uq_users_off(row) == TRUE

uq_users(row) ==
    \A u \in users : u.username # row.username /\ u.email # row.email

uq_follows_follower_followed_off(follower_id, followed_id) == TRUE

uq_follows_follower_followed(follower_id, followed_id) ==
    ~BagIn(<<follower_id, followed_id>>, follows)

ck_follows_no_self_follow(follower_id, followed_id) == follower_id # followed_id

fk_follows_users(follower_id, followed_id) ==
    fk_enforced => /\ \E u \in users : u.id = follower_id
                   /\ \E u \in users : u.id = followed_id

Referenced(user_id) ==
    \E e \in BagToSet(follows) : e[1] = user_id \/ e[2] = user_id

(***************************************************************************)
(* schemas.py UserCreate and the username query parameter of the follow    *)
(* routes: what the request validation accepts                             *)
(***************************************************************************)
\* pydantic's EmailStr over the email inputs of the model.
EmailStr_validates(email) == email \in Emails

UserCreate_validates_anything(user_create) == TRUE

UserCreate_validates(user_create) ==
    /\ user_create.username # None
    /\ Len(user_create.username) >= 3
    /\ Len(user_create.username) <= 50
    /\ user_create.email # None
    /\ EmailStr_validates(user_create.email)
    /\ user_create.password # None
    /\ Len(user_create.password) >= 8

username_validates(username) ==
    /\ username # None
    /\ Len(username) >= 3
    /\ Len(username) <= 50

validation_detail == "Unprocessable Entity"

(***************************************************************************)
(* Responses                                                               *)
(***************************************************************************)
\* What the client sees of the last request: the route, the status and detail
\* of the answer, the username and email of the payload (or the username query
\* parameter), the password of the payload, and the token issued by or presented to the route.
NoEdge == <<0, 0>>

Response(op, status, detail, username, email, password, token) ==
    [op |-> op, status |-> status, detail |-> detail, username |-> username,
     email |-> email, password |-> password, token |-> token, edge |-> NoEdge]

\* The 200 of the follow route: the FollowBase of the new row.
FollowResponse(username, token, follow_db) ==
    [Response("follow", 200, "", username, "", "", token) EXCEPT !.edge = follow_db]

InitResp == Response("none", 0, "", "", "", "", NoToken)

credentials_detail == "Could not validate credentials"

expired_detail == "Token has expired"

(***************************************************************************)
(* config/token.py get_current_user: outcome of the token dependency       *)
(***************************************************************************)
get_current_user_from_claims(token, t) ==
    LET exc == jwt_decode(token, t)
    IN  IF exc # "ok"
        THEN [status |-> 401, detail |-> credentials_detail, user |-> {}]
        ELSE [status |-> 200, detail |-> "",
              user |-> {[id |-> UUID(token.id), username |-> token.username,
                         email |-> token.email, password |-> <<>>]}]

\* A token dependency that selects the account by the token's username.
get_current_user_by_username(token, t) ==
    LET exc == IF jwt_decode(token, t) # "ok" THEN jwt_decode(token, t)
               ELSE UUID_raises(token.id)
        found == {u \in users : u.username = token.username}
    IN  IF exc # "ok" \/ token.email = None \/ token.username = None \/ found = {}
        THEN [status |-> 401, detail |-> credentials_detail, user |-> {}]
        ELSE [status |-> 200, detail |-> "", user |-> found]

get_current_user(token, t) ==
    LET exc == IF jwt_decode(token, t) # "ok" THEN jwt_decode(token, t)
               ELSE UUID_raises(token.id)
    IN  IF exc # "ok"
        THEN IF handled_as_expired(exc)
             THEN [status |-> 401, detail |-> expired_detail, user |-> {}]
             ELSE IF handled_as_JWTError(exc)
             THEN [status |-> 401, detail |-> credentials_detail, user |-> {}]
             ELSE [status |-> 500, detail |-> "Internal Server Error", user |-> {}]
        ELSE IF token.email = None \/ token.username = None
             THEN [status |-> 401, detail |-> credentials_detail, user |-> {}]
        ELSE IF get_user_by_id(UUID(token.id)) = {}
             THEN [status |-> 401, detail |-> credentials_detail, user |-> {}]
             ELSE [status |-> 200, detail |-> "", user |-> get_user_by_id(UUID(token.id))]

(***************************************************************************)
(* Initial state: empty tables, nothing issued                             *)
(***************************************************************************)
Init ==
    /\ users = {}
    /\ follows = EmptyBag
    /\ nextId = 1
    /\ now = 0
    /\ held = NoToken
    /\ resp = InitResp
    /\ pending = {}
    /\ fk_enforced \in BOOLEAN

(***************************************************************************)
(* schemas.py: domain exceptions and the status the routes map them to     *)
(***************************************************************************)
message(exc) ==
    CASE exc = "EmailAlreadyRegistered" -> "Email is already registered"
      [] exc = "UsernameAlreadyRegistered" -> "Username is already registered"
      [] exc = "UserNotFound" -> "User not found"
      [] exc = "CannotFollowSelf" -> "User can't follow themselves"
      [] exc = "CannotUnFollowSelf" -> "User can't unfollow themselves"
      [] exc = "AlreadyFollowing" -> "You are already following this user"
      [] exc = "NotFollowing" -> "User can't unfollow user they dont follow"
      [] OTHER -> "Internal Server Error"

status_of(exc) ==
    CASE exc \in {"EmailAlreadyRegistered", "UsernameAlreadyRegistered"} -> 409
      [] exc = "UserNotFound" -> 404
      [] exc \in {"CannotFollowSelf", "CannotUnFollowSelf", "AlreadyFollowing", "NotFollowing"} -> 403
      [] OTHER -> 500

\* routes: the domain exceptions each route names in its except clauses; any
\* other exception leaves the route unhandled and is answered 500.
except_clauses_without_self(op) ==
    CASE op = "signup" -> {"EmailAlreadyRegistered", "UsernameAlreadyRegistered"}
      [] op = "login" -> {"UserNotFound"}
      [] op = "follow" -> {"UserNotFound", "AlreadyFollowing"}
      [] op = "unfollow" -> {"UserNotFound", "NotFollowing"}
      [] OTHER -> {}

except_clauses(op) ==
    CASE op = "signup" -> {"EmailAlreadyRegistered", "UsernameAlreadyRegistered"}
      [] op = "login" -> {"UserNotFound"}
      [] op = "follow" -> {"UserNotFound", "AlreadyFollowing", "CannotFollowSelf"}
      [] op = "unfollow" -> {"UserNotFound", "NotFollowing", "CannotUnFollowSelf"}
      [] OTHER -> {}

route_status(op, exc) == IF exc \in except_clauses(op) THEN status_of(exc) ELSE 500

route_detail(op, exc) ==
    IF exc \in except_clauses(op) THEN message(exc) ELSE "Internal Server Error"

(***************************************************************************)
(* services: the exception raised, or "ok", for each row .first() may      *)
(* return                                                                  *)
(***************************************************************************)
create_user_username_first(user_create) ==
    LET matches == get_user_by_email_or_username(user_create.email, user_create.username)
    IN  IF matches # {}
        THEN {IF existing_user.username = user_create.username
              THEN "UsernameAlreadyRegistered"
              ELSE "EmailAlreadyRegistered" : existing_user \in matches}
        ELSE {"ok"}

auth_service_create_user(user_create) ==
    LET matches == get_user_by_email_or_username(user_create.email, user_create.username)
    IN  IF matches # {}
        THEN {IF existing_user.email = user_create.email
              THEN "EmailAlreadyRegistered"
              ELSE "UsernameAlreadyRegistered" : existing_user \in matches}
        ELSE {"ok"}

user_service_create_user(user_create) ==
    LET matches == get_user_by_email_or_username(user_create.email, user_create.username)
    IN  IF matches # {}
        THEN {IF existing_user.email = user_create.email
              THEN "EmailAlreadyRegistered"
              ELSE "UsernameAlreadyRegistered" : existing_user \in matches}
        ELSE {"ok"}

create_user(route, user_create) ==
    IF route = "auth" THEN auth_service_create_user(user_create)
    ELSE user_service_create_user(user_create)

authenticate_user(login_data) ==
    LET found == get_user_by_login(login_data)
    IN  IF found = {} THEN [exc |-> "UserNotFound", user |-> {}]
        ELSE [exc |-> "ok", user |-> found]

follow_user_check_no_self(current_user, username_to_follow) ==
    LET found == get_user_by_email_or_username(None, username_to_follow)
    IN  IF found = {} THEN {[exc |-> "UserNotFound", target |-> 0]}
        ELSE {IF get_follow(current_user.id, user_to_follow.id) # {}
              THEN [exc |-> "AlreadyFollowing", target |-> user_to_follow.id]
              ELSE [exc |-> "ok", target |-> user_to_follow.id] : user_to_follow \in found}

follow_user_check(current_user, username_to_follow) ==
    LET found == get_user_by_email_or_username(None, username_to_follow)
    IN  IF found = {} THEN {[exc |-> "UserNotFound", target |-> 0]}
        ELSE {IF get_follow(current_user.id, user_to_follow.id) # {}
              THEN [exc |-> "AlreadyFollowing", target |-> user_to_follow.id]
              ELSE IF current_user.username = user_to_follow.username
              THEN [exc |-> "CannotFollowSelf", target |-> user_to_follow.id]
              ELSE [exc |-> "ok", target |-> user_to_follow.id] : user_to_follow \in found}

unfollow_user_check_edge_first(current_user, username_to_unfollow) ==
    LET found == get_user_by_email_or_username(None, username_to_unfollow)
    IN  IF found = {} THEN {[exc |-> "UserNotFound", target |-> 0]}
        ELSE {IF get_follow(current_user.id, user_to_unfollow.id) = {}
              THEN [exc |-> "NotFollowing", target |-> user_to_unfollow.id]
              ELSE IF current_user.username = user_to_unfollow.username
              THEN [exc |-> "CannotUnFollowSelf", target |-> user_to_unfollow.id]
              ELSE [exc |-> "ok", target |-> user_to_unfollow.id] : user_to_unfollow \in found}

unfollow_user_check(current_user, username_to_unfollow) ==
    LET found == get_user_by_email_or_username(None, username_to_unfollow)
    IN  IF found = {} THEN {[exc |-> "UserNotFound", target |-> 0]}
        ELSE {IF current_user.username = user_to_unfollow.username
              THEN [exc |-> "CannotUnFollowSelf", target |-> user_to_unfollow.id]
              ELSE IF get_follow(current_user.id, user_to_unfollow.id) = {}
              THEN [exc |-> "NotFollowing", target |-> user_to_unfollow.id]
              ELSE [exc |-> "ok", target |-> user_to_unfollow.id] : user_to_unfollow \in found}

(***************************************************************************)
(* crud/user_crud.py setters: the insert or delete, or the IntegrityError  *)
(* the schema raises                                                       *)
(***************************************************************************)
\* A users table that hands a freed id out again.
crud_create_user_reuse_id(user_create, salt) ==
    [id |-> CHOOSE i \in 1..nextId :
              /\ \A u \in users : u.id # i
              /\ \A j \in 1..(i - 1) : \E u \in users : u.id = j,
     username |-> user_create.username, email |-> user_create.email,
     password |-> get_hashed_password(user_create.password, salt)]

crud_create_user(user_create, salt) ==
    [id |-> nextId, username |-> user_create.username, email |-> user_create.email,
     password |-> get_hashed_password(user_create.password, salt)]

crud_follow_user_reversed(current_user_id, user_to_follow_id) ==
    <<user_to_follow_id, current_user_id>>

\* The Follow row of crud follow_user, and the table after crud unfollow_user.
crud_follow_user(current_user_id, user_to_follow_id) ==
    <<current_user_id, user_to_follow_id>>

\* An unfollow whose delete is never committed.
crud_unfollow_user_uncommitted(follow) == follows

crud_unfollow_user_both_ways(follow) ==
    follows (-) SetToBag({follow, <<follow[2], follow[1]>>})

crud_unfollow_user(follow) == follows (-) SetToBag({follow})

crud_follow_user_ok(current_user_id, user_to_follow_id) ==
    /\ uq_follows_follower_followed(current_user_id, user_to_follow_id)
    /\ ck_follows_no_self_follow(current_user_id, user_to_follow_id)
    /\ fk_follows_users(current_user_id, user_to_follow_id)

\* A delete whose query lost its filter on the id.
crud_delete_user_unfiltered(user_to_delete_id) == {}

\* The users table after crud delete_user.
crud_delete_user(user_to_delete_id) == {u \in users : u.id # user_to_delete_id}

crud_delete_user_ok(user_to_delete_id) == fk_enforced => ~Referenced(user_to_delete_id)

(***************************************************************************)
(* Tokens a client can present: the one it kept, or a string that is no    *)
(* token                                                                   *)
(***************************************************************************)
InvalidToken == [signed |-> FALSE, id |-> <<>>, username |-> "", email |-> "", exp |-> 1]

Presentable == {held, InvalidToken} \ {NoToken}

Unauthorized(op, auth, token, target) ==
    Response(op, auth.status, auth.detail, target, "", "", token)

(***************************************************************************)
(* Routes                                                                  *)
(***************************************************************************)
\* POST /auth/signup (route "auth") and POST /users/signup (route "users")
SignupVia(route, usernames, emails, passwords) ==
    \E username \in usernames, email \in emails,
       password \in passwords, salt \in Salts :
        LET user_create == [username |-> username, email |-> email, password |-> password]
            user_db == crud_create_user(user_create, salt)
            token == create_access_token(user_data(user_db), <<>>, now)
        IN  IF ~UserCreate_validates(user_create)
            THEN /\ resp' = Response("signup", 422, validation_detail,
                                     username, email, password, NoToken)
                 /\ UNCHANGED <<users, follows, nextId, now, held, pending, fk_enforced>>
            ELSE
            \E out \in create_user(route, user_create) :
              IF out # "ok"
              THEN /\ resp' = Response("signup", route_status("signup", out),
                                       route_detail("signup", out),
                                       username, email, password, NoToken)
                   /\ UNCHANGED <<users, follows, nextId, now, held, pending, fk_enforced>>
              ELSE /\ nextId <= MaxAccounts
                   /\ IF uq_users(user_db)
                      THEN /\ users' = users \cup {user_db}
                           /\ nextId' = nextId + 1
                           /\ resp' = Response("signup", 200, "", username, email, password, token)
                      ELSE /\ resp' = Response("signup", 500, message("IntegrityError"),
                                               username, email, password, NoToken)
                           /\ UNCHANGED <<users, nextId>>
                   /\ UNCHANGED <<follows, now, held, pending, fk_enforced>>

SignupRequest(usernames, emails, passwords) ==
    \E route \in Routes : SignupVia(route, usernames, emails, passwords)

Signup == SignupRequest(Usernames, Emails, SignupPasswords)

\* POST /auth/login
\* A login route wired to the service that creates the account.
LoginRequest_creating(usernames, emails, passwords) ==
    \E username \in usernames, email \in emails, password \in passwords, salt \in Salts :
        LET login_data == [username |-> username, email |-> email, password |-> password]
            user_db == crud_create_user(login_data, salt)
        IN  /\ IF ~UserCreate_validates(login_data)
               THEN /\ resp' = Response("login", 422, validation_detail,
                                        username, email, password, NoToken)
                    /\ UNCHANGED <<users, nextId>>
               ELSE /\ nextId <= MaxAccounts
                    /\ uq_users(user_db)
                    /\ users' = users \cup {user_db}
                    /\ nextId' = nextId + 1
                    /\ resp' = Response("login", 200, "", username, email, password,
                                        create_access_token(user_data(user_db), <<>>, now))
            /\ UNCHANGED <<follows, now, held, pending, fk_enforced>>

LoginRequest(usernames, emails, passwords) ==
    \E username \in usernames, email \in emails, password \in passwords :
        LET login_data == [username |-> username, email |-> email, password |-> password]
            out == authenticate_user(login_data)
        IN  /\ IF ~UserCreate_validates(login_data)
               THEN resp' = Response("login", 422, validation_detail,
                                     username, email, password, NoToken)
               ELSE IF out.exc # "ok"
               THEN resp' = Response("login", route_status("login", out.exc),
                                     route_detail("login", out.exc),
                                     username, email, password, NoToken)
               ELSE \E user \in out.user :
                      resp' = Response("login", 200, "", username, email, password,
                                       create_access_token(user_data(user), <<>>, now))
            /\ UNCHANGED <<users, follows, nextId, now, held, pending, fk_enforced>>

Login == LoginRequest(Usernames, Emails, Passwords)

\* GET /users/me
Me ==
    \E token \in Presentable :
        LET auth == get_current_user(token, now)
        IN  /\ IF auth.status # 200
               THEN resp' = Unauthorized("me", auth, token, "")
               ELSE \E current_user \in auth.user :
                      resp' = Response("me", 200, "", current_user.username,
                                       current_user.email, "", token)
            /\ UNCHANGED <<users, follows, nextId, now, held, pending, fk_enforced>>

\* DELETE /users/delete
Delete ==
    \E token \in Presentable :
        LET auth == get_current_user(token, now)
        IN  IF auth.status # 200
            THEN /\ resp' = Unauthorized("delete", auth, token, "")
                 /\ UNCHANGED <<users, follows, nextId, now, held, pending, fk_enforced>>
            ELSE \E current_user \in auth.user :
                   /\ IF crud_delete_user_ok(current_user.id)
                      THEN /\ users' = crud_delete_user(current_user.id)
                           /\ resp' = Response("delete", 200, "", current_user.username,
                                               "", "", token)
                      ELSE /\ resp' = Response("delete", 500, message("IntegrityError"),
                                               current_user.username, "", "", token)
                           /\ UNCHANGED users
                   /\ UNCHANGED <<follows, nextId, now, held, pending, fk_enforced>>

\* POST /users/follow?username_to_follow=...
\* The token dependency is resolved before the query parameter is validated.
FollowRequest(usernames) ==
    \E token \in Presentable, username_to_follow \in usernames :
        LET auth == get_current_user(token, now)
        IN  IF auth.status # 200
            THEN /\ resp' = Unauthorized("follow", auth, token, username_to_follow)
                 /\ UNCHANGED <<users, follows, nextId, now, held, pending, fk_enforced>>
            ELSE IF ~username_validates(username_to_follow)
            THEN /\ resp' = Response("follow", 422, validation_detail,
                                     username_to_follow, "", "", token)
                 /\ UNCHANGED <<users, follows, nextId, now, held, pending, fk_enforced>>
            ELSE \E current_user \in auth.user :
                 \E out \in follow_user_check(current_user, username_to_follow) :
                   /\ IF out.exc # "ok"
                      THEN /\ resp' = Response("follow", route_status("follow", out.exc),
                                               route_detail("follow", out.exc),
                                               username_to_follow, "", "", token)
                           /\ UNCHANGED follows
                      ELSE IF crud_follow_user_ok(current_user.id, out.target)
                      THEN /\ follows' = follows (+)
                                  SetToBag({crud_follow_user(current_user.id, out.target)})
                           /\ resp' = FollowResponse(username_to_follow, token,
                                          crud_follow_user(current_user.id, out.target))
                      ELSE /\ resp' = Response("follow", 500, message("IntegrityError"),
                                               username_to_follow, "", "", token)
                           /\ UNCHANGED follows
                   /\ UNCHANGED <<users, nextId, now, held, pending, fk_enforced>>

Follow == FollowRequest(Usernames)

\* DELETE /users/unfollow?username_to_unfollow=...
UnfollowRequest(usernames) ==
    \E token \in Presentable, username_to_unfollow \in usernames :
        LET auth == get_current_user(token, now)
        IN  IF auth.status # 200
            THEN /\ resp' = Unauthorized("unfollow", auth, token, username_to_unfollow)
                 /\ UNCHANGED <<users, follows, nextId, now, held, pending, fk_enforced>>
            ELSE IF ~username_validates(username_to_unfollow)
            THEN /\ resp' = Response("unfollow", 422, validation_detail,
                                     username_to_unfollow, "", "", token)
                 /\ UNCHANGED <<users, follows, nextId, now, held, pending, fk_enforced>>
            ELSE \E current_user \in auth.user :
                 \E out \in unfollow_user_check(current_user, username_to_unfollow) :
                   /\ IF out.exc # "ok"
                      THEN /\ resp' = Response("unfollow", route_status("unfollow", out.exc),
                                               route_detail("unfollow", out.exc),
                                               username_to_unfollow, "", "", token)
                           /\ UNCHANGED follows
                      ELSE /\ follows' = crud_unfollow_user(<<current_user.id, out.target>>)
                           /\ resp' = Response("unfollow", 200, "", username_to_unfollow,
                                               "", "", token)
                   /\ UNCHANGED <<users, nextId, now, held, pending, fk_enforced>>

Unfollow == UnfollowRequest(Usernames)

\* DELETE /delete-all-users: one bulk delete of the users table, no token asked
delete_all_users ==
    /\ IF \A u \in users : crud_delete_user_ok(u.id)
       THEN /\ users' = {}
            /\ resp' = Response("delete_all_users", 200, "", "", "", "", NoToken)
       ELSE /\ resp' = Response("delete_all_users", 1011, "Failed to delete all users.",
                                "", "", "", NoToken)
            /\ UNCHANGED users
    /\ UNCHANGED <<follows, nextId, now, held, pending, fk_enforced>>

\* create_access_token called with an explicit lifetime
IssueToken ==
    \E data \in {user_data(u) : u \in users} \cup {fake_user_data} \cup crafted_user_data,
       expire_date \in {<<m>> : m \in CustomTTLs} :
        /\ resp' = Response("token", 0, "", data.username, data.email, "",
                            create_access_token(data, expire_date, now))
        /\ UNCHANGED <<users, follows, nextId, now, held, pending, fk_enforced>>

\* The client keeps the token of the last signup or login for later requests.
KeepToken ==
    /\ resp.op \in {"signup", "login", "token"}
    /\ resp.token.signed
    /\ resp.token # held
    /\ held' = resp.token
    /\ UNCHANGED <<users, follows, nextId, now, resp, pending, fk_enforced>>

\* The clock advances by one minute.
Tick ==
    /\ now < MaxTime
    /\ now' = now + 1
    /\ UNCHANGED <<users, follows, nextId, held, resp, pending, fk_enforced>>

(***************************************************************************)
(* Two requests in flight: a follow request that has passed the checks of  *)
(* the service and has not yet run the insert of the crud layer             *)
(***************************************************************************)
MaxPending == 1

BeginFollow ==
    \E token \in Presentable, username_to_follow \in Usernames :
        LET auth == get_current_user(token, now)
        IN  /\ auth.status = 200
            /\ Cardinality(pending) < MaxPending
            /\ \E current_user \in auth.user :
               \E out \in follow_user_check(current_user, username_to_follow) :
                 /\ out.exc = "ok"
                 /\ pending' = pending \cup {[token |-> token, username |-> username_to_follow,
                                              follower |-> current_user.id,
                                              followed |-> out.target]}
            /\ UNCHANGED <<users, follows, nextId, now, held, resp, fk_enforced>>

CommitFollow ==
    \E p \in pending :
        /\ pending' = pending \ {p}
        /\ IF crud_follow_user_ok(p.follower, p.followed)
           THEN /\ follows' = follows (+) SetToBag({crud_follow_user(p.follower, p.followed)})
                /\ resp' = FollowResponse(p.username, p.token,
                                          crud_follow_user(p.follower, p.followed))
           ELSE /\ resp' = Response("follow", 500, message("IntegrityError"),
                                    p.username, "", "", p.token)
                /\ UNCHANGED follows
        /\ UNCHANGED <<users, nextId, now, held, fk_enforced>>

(***************************************************************************)
(* Two signups in flight: a signup that has passed the lookup of the       *)
(* service and has not yet run the insert of the crud layer                *)
(***************************************************************************)
BeginSignup ==
    \E route \in Routes, username \in Usernames, email \in Emails,
       password \in SignupPasswords :
        LET user_create == [username |-> username, email |-> email, password |-> password]
        IN  /\ "ok" \in create_user(route, user_create)
            /\ nextId <= MaxAccounts
            /\ Cardinality(pending) < MaxPending
            /\ pending' = pending \cup {user_create}
            /\ UNCHANGED <<users, follows, nextId, now, held, resp, fk_enforced>>

CommitSignup ==
    \E user_create \in pending, salt \in Salts :
        LET user_db == crud_create_user(user_create, salt)
            token == create_access_token(user_data(user_db), <<>>, now)
        IN  /\ pending' = pending \ {user_create}
            /\ IF uq_users(user_db)
               THEN /\ users' = users \cup {user_db}
                    /\ nextId' = nextId + 1
                    /\ resp' = Response("signup", 200, "", user_create.username,
                                        user_create.email, user_create.password, token)
               ELSE /\ resp' = Response("signup", 500, message("IntegrityError"),
                                        user_create.username, user_create.email,
                                        user_create.password, NoToken)
                    /\ UNCHANGED <<users, nextId>>
            /\ UNCHANGED <<follows, now, held, fk_enforced>>

(***************************************************************************)
(* Specifications.  Spec: the routes, one request at a time, within one    *)
(* minute of the clock.  SpecClock: the account and token routes with the  *)
(* clock running.  SpecRace: Spec with follow requests interleaved.        *)
(* SpecSignupRace: the account routes with signup requests interleaved.    *)
(* SpecValidation: the routes fed valid and invalid inputs.                *)
(***************************************************************************)
Next ==
    \/ Signup
    \/ Login
    \/ Me
    \/ Delete
    \/ Follow
    \/ Unfollow
    \/ delete_all_users
    \/ KeepToken

NextClock ==
    \/ Signup
    \/ Login
    \/ Me
    \/ Delete
    \/ IssueToken
    \/ KeepToken
    \/ Tick

NextRace ==
    \/ Next
    \/ BeginFollow
    \/ CommitFollow

NextSignupRace ==
    \/ Signup
    \/ Login
    \/ Me
    \/ Delete
    \/ KeepToken
    \/ BeginSignup
    \/ CommitSignup

\* The routes with the inputs the validation refuses among the requests.
SignupAnyPayload ==
    SignupRequest(Usernames \cup InvalidUsernames, Emails \cup InvalidEmails,
                  SignupPasswords \cup InvalidPasswords)

LoginAnyPayload ==
    LoginRequest(Usernames \cup InvalidUsernames, Emails \cup InvalidEmails,
                 Passwords \cup InvalidPasswords)

FollowAnyUsername == FollowRequest(Usernames \cup InvalidUsernames)

UnfollowAnyUsername == UnfollowRequest(Usernames \cup InvalidUsernames)

NextValidation ==
    \/ SignupAnyPayload
    \/ LoginAnyPayload
    \/ FollowAnyUsername
    \/ UnfollowAnyUsername
    \/ KeepToken

Spec == Init /\ [][Next]_vars

SpecClock == Init /\ [][NextClock]_vars

SpecRace == Init /\ [][NextRace]_vars

SpecSignupRace == Init /\ [][NextSignupRace]_vars

SpecValidation == Init /\ [][NextValidation]_vars

(***************************************************************************)
(* Steps and cases the properties speak about                              *)
(***************************************************************************)
\* A step that handles one request of the route op from start to end.
RequestStep(op) ==
    /\ resp'.op = op
    /\ held' = held
    /\ now' = now
    /\ pending' = pending

UsernameTaken(username) == \E u \in users : u.username = username

EmailTaken(email) == \E u \in users : u.email = email

OwnerOf(token) ==
    IF UUID_raises(token.id) = "ok" THEN {u \in users : u.id = UUID(token.id)} ELSE {}

\* The token carries an id that is a valid identifier, a username and an email.
CarriesAllClaims(token) ==
    /\ UUID_raises(token.id) = "ok"
    /\ token.username # None
    /\ token.email # None

email_detail == "Email is already registered"

username_detail == "Username is already registered"

C2_UsernameNamedFirst ==
    [][(RequestStep("signup") /\ (UsernameTaken(resp'.username) \/ EmailTaken(resp'.email)))
       => /\ resp'.status = 409
          /\ resp'.detail = IF UsernameTaken(resp'.username)
                            THEN username_detail ELSE email_detail]_vars

(***************************************************************************)
(* C2 amended: a signup that collides is answered 409 and the store is     *)
(* left alone; the email is named whenever the payload's email is taken by *)
(* the account that also has the username or the username is free, the     *)
(* username is named when only the username is taken, and when two         *)
(* different accounts own the username and the email either is named.      *)
(***************************************************************************)
C2_ConflictNamesEmailFirst ==
    [][(RequestStep("signup") /\ (UsernameTaken(resp'.username) \/ EmailTaken(resp'.email)))
       => /\ resp'.status = 409
          /\ UNCHANGED store
          /\ resp'.token = NoToken
          /\ resp'.detail \in {email_detail, username_detail}
          /\ (resp'.detail = email_detail) => EmailTaken(resp'.email)
          /\ (resp'.detail = username_detail) => UsernameTaken(resp'.username)
          /\ (\E u \in users : u.username = resp'.username /\ u.email = resp'.email)
                => resp'.detail = email_detail
          /\ ~UsernameTaken(resp'.username) => resp'.detail = email_detail
          /\ ~EmailTaken(resp'.email) => resp'.detail = username_detail]_vars

C2_Witness ==
    /\ resp.op = "signup"
    /\ resp.status = 409
    /\ resp.detail = email_detail
    /\ \E u \in users : u.username = resp.username /\ u.email = resp.email

(***************************************************************************)
(* C3: with exactly one account X in the store, a signup reports the       *)
(* username (409) when only the username equals X's, the email (409) when  *)
(* only the email equals X's, and the email when both equal X's; no        *)
(* account is created in any of the three cases.                           *)
(***************************************************************************)
C3_OneExistingAccount ==
    [][(RequestStep("signup") /\ Cardinality(users) = 1)
       => \A x \in users :
            LET same_username == x.username = resp'.username
                same_email == x.email = resp'.email
            IN  /\ (same_username /\ ~same_email)
                     => resp'.status = 409 /\ resp'.detail = username_detail
                /\ (~same_username /\ same_email)
                     => resp'.status = 409 /\ resp'.detail = email_detail
                /\ (same_username /\ same_email)
                     => resp'.status = 409 /\ resp'.detail = email_detail
                /\ (same_username \/ same_email) => UNCHANGED store]_vars

C3_Witness ==
    /\ resp.op = "signup"
    /\ resp.status = 409
    /\ resp.detail = username_detail
    /\ Cardinality(users) = 1
    /\ \E x \in users : x.username = resp.username /\ x.email # resp.email

(***************************************************************************)
(* C4: a login with the username and email of an existing account and a    *)
(* wrong password is answered exactly as a login whose username and email  *)
(* match no account: 404 'User not found', no token; neither changes the   *)
(* store.                                                                  *)
(***************************************************************************)
C4_LoginNonEnumerable ==
    [][RequestStep("login")
       => LET rows == {u \in users : u.username = resp'.username /\ u.email = resp'.email}
              wrong_password == /\ rows # {}
                                /\ \A u \in rows : \A salt \in Salts :
                                     u.password # get_hashed_password(resp'.password, salt)
              unknown == rows = {}
          IN  /\ (wrong_password \/ unknown)
                   => /\ resp'.status = 404
                      /\ resp'.detail = "User not found"
                      /\ resp'.token = NoToken
              /\ UNCHANGED store]_vars

C4_Witness ==
    /\ resp.op = "login"
    /\ resp.status = 404
    /\ \E u \in users : /\ u.username = resp.username
                        /\ u.email = resp.email
                        /\ \A salt \in Salts :
                             u.password # get_hashed_password(resp.password, salt)

(***************************************************************************)
(* C5: a login succeeds exactly when one stored account has the payload's  *)
(* username and the payload's email, character for character, and the      *)
(* password verifies against its hash; the token is then that account's.   *)
(* Any other login, a differently-cased email included, is answered 404.   *)
(***************************************************************************)
C5_LoginMatchesBothExactly ==
    [][RequestStep("login")
       => LET rows == {u \in users : /\ u.username = resp'.username
                                     /\ u.email = resp'.email
                                     /\ verify_password(resp'.password, u.password)}
          IN  /\ (resp'.status = 200) <=> (Cardinality(rows) = 1)
              /\ resp'.status = 200 => \E u \in rows : UUID(resp'.token.id) = u.id
              /\ resp'.status # 200
                   => resp'.status = 404 /\ resp'.detail = "User not found"]_vars

C5_Witness ==
    /\ resp.op = "login"
    /\ resp.status = 404
    /\ \E u \in users : /\ u.username = resp.username
                        /\ u.email # resp.email
                        /\ lower(u.email) = lower(resp.email)
                        /\ verify_password(resp.password, u.password)

(***************************************************************************)
(* C6: a token issued by signup or login at time T carries the expiry      *)
(* instant T + ACCESS_TOKEN_EXPIRE_MINUTES, and one issued with a lifetime *)
(* of m minutes carries T + m instead; a signed token that carries all     *)
(* claims and whose subject exists is accepted while the clock is before   *)
(* its expiry instant, and a signed token is rejected with 401 once the    *)
(* clock is past it.                                                       *)
(***************************************************************************)
C6_TokenLifetime ==
    [][/\ (RequestStep("signup") \/ RequestStep("login")) /\ resp'.status = 200
            => resp'.token.exp = now + ACCESS_TOKEN_EXPIRE_MINUTES
       /\ RequestStep("token")
            => \E m \in CustomTTLs : resp'.token.exp = now + m
       /\ (RequestStep("me") /\ resp'.token.signed)
            => /\ (/\ now < resp'.token.exp
                   /\ CarriesAllClaims(resp'.token)
                   /\ OwnerOf(resp'.token) # {})
                    => resp'.status = 200
               /\ now > resp'.token.exp => resp'.status = 401]_vars

C6_Witness ==
    /\ resp.op = "me"
    /\ resp.status = 401
    /\ resp.token.signed
    /\ OwnerOf(resp.token) # {}
    /\ now = resp.token.exp + 1
    /\ resp.token.exp = ACCESS_TOKEN_EXPIRE_MINUTES

(***************************************************************************)
(* C7: a signed token presented after its expiry instant is answered 401   *)
(* with the detail 'Token has expired', not with the detail used for       *)
(* malformed tokens and missing subjects.                                  *)
(***************************************************************************)
C7_ExpiredTokenNamedExpired ==
    [][((RequestStep("me") \/ RequestStep("delete"))
          /\ resp'.token.signed /\ now > resp'.token.exp)
       => /\ resp'.status = 401
          /\ resp'.detail = expired_detail
          /\ resp'.detail # credentials_detail]_vars

(***************************************************************************)
(* C8: on each of the routes me, delete, follow and unfollow, a signed,    *)
(* unexpired token whose subject is no longer stored is answered 401       *)
(* 'Could not validate credentials' and the store is left alone; so is a   *)
(* second delete with the token of the deleted account.                    *)
(***************************************************************************)
C8_DeletedAccountTokenRejected ==
    [][\A op \in {"me", "delete", "follow", "unfollow"} :
         (/\ RequestStep(op)
          /\ resp'.token.signed
          /\ ~(resp'.token.exp < now)
          /\ OwnerOf(resp'.token) = {})
         => /\ resp'.status = 401
            /\ resp'.detail = credentials_detail
            /\ UNCHANGED store]_vars

C8_Witness ==
    /\ resp.op = "delete"
    /\ resp.status = 401
    /\ resp.detail = credentials_detail
    /\ resp.token.signed
    /\ resp.token = held
    /\ OwnerOf(resp.token) = {}
    /\ users # {}

(***************************************************************************)
(* C9: in every reachable state no follow edge has follower = followed and *)
(* every ordered (follower, followed) pair has at most one edge.           *)
(***************************************************************************)
C9_FollowsIrreflexiveAndUnique ==
    \A e \in BagToSet(follows) :
        /\ e[1] # e[2]
        /\ CopiesIn(e, follows) = 1

C9_Witness ==
    /\ resp.op = "follow"
    /\ resp.status = 500
    /\ \E a, b \in users :
         /\ a.id # b.id
         /\ a.username = held.username
         /\ b.username = resp.username
         /\ CopiesIn(<<a.id, b.id>>, follows) = 1

(***************************************************************************)
(* C10: a follow by a valid caller is answered 404 'User not found' when   *)
(* the target username is not stored, 403 \"User can't follow themselves\" *)
(* whenever the target is the caller, whatever edges the caller has, and   *)
(* 403 'You are already following this user' when the target is another    *)
(* account and the edge exists; none of the three changes the edges.       *)
(***************************************************************************)
C10_FollowFailures ==
    [][(RequestStep("follow") /\ get_current_user(resp'.token, now).status = 200)
       => \A current_user \in get_current_user(resp'.token, now).user :
            LET target == {u \in users : u.username = resp'.username}
            IN  /\ target = {}
                     => /\ resp'.status = 404
                        /\ resp'.detail = "User not found"
                        /\ UNCHANGED follows
                /\ current_user \in target
                     => /\ resp'.status = 403
                        /\ resp'.detail = "User can't follow themselves"
                        /\ UNCHANGED follows
                /\ \A u \in target :
                     (u # current_user /\ BagIn(<<current_user.id, u.id>>, follows))
                        => /\ resp'.status = 403
                           /\ resp'.detail = "You are already following this user"
                           /\ UNCHANGED follows]_vars

C10_Witness ==
    /\ resp.op = "follow"
    /\ resp.status = 403
    /\ resp.detail = "User can't follow themselves"
    /\ \E u \in users :
         /\ u.username = resp.username
         /\ u.id = UUID(resp.token.id)
         /\ \E e \in BagToSet(follows) : e[1] = u.id

(***************************************************************************)
(* C11: an unfollow by a valid caller is answered 404 'User not found'     *)
(* when the target username is not stored, 403 "User can't unfollow        *)
(* themselves" whenever the target is the caller, and 403 "User can't      *)
(* unfollow user they dont follow" when the target is another account and  *)
(* the caller has no edge to it; none of the three changes the edges.      *)
(***************************************************************************)
C11_UnfollowFailures ==
    [][(RequestStep("unfollow") /\ get_current_user(resp'.token, now).status = 200)
       => \A current_user \in get_current_user(resp'.token, now).user :
            LET target == {u \in users : u.username = resp'.username}
            IN  /\ target = {}
                     => /\ resp'.status = 404
                        /\ resp'.detail = "User not found"
                        /\ UNCHANGED follows
                /\ current_user \in target
                     => /\ resp'.status = 403
                        /\ resp'.detail = "User can't unfollow themselves"
                        /\ UNCHANGED follows
                /\ \A u \in target :
                     (u # current_user /\ ~BagIn(<<current_user.id, u.id>>, follows))
                        => /\ resp'.status = 403
                           /\ resp'.detail = "User can't unfollow user they dont follow"
                           /\ UNCHANGED follows]_vars

\* The caller is refused an edge they do not have while the reverse edge exists.
C11_Witness ==
    /\ resp.op = "unfollow"
    /\ resp.status = 403
    /\ resp.detail = "User can't unfollow user they dont follow"
    /\ \E a, b \in users :
         /\ a.id = UUID(resp.token.id)
         /\ b.username = resp.username
         /\ a # b
         /\ ~BagIn(<<a.id, b.id>>, follows)
         /\ BagIn(<<b.id, a.id>>, follows)

(***************************************************************************)
(* C12: after a delete answered 200 the caller's account is no longer      *)
(* stored and no follow edge has the deleted id as follower or as          *)
(* followed, so that both endpoints of every edge are stored accounts.     *)
(***************************************************************************)
C12_DeleteRemovesEdges ==
    [][(RequestStep("delete") /\ resp'.status = 200)
       => LET id == UUID(resp'.token.id)
          IN  /\ \A u \in users' : u.id # id
              /\ \A e \in BagToSet(follows') : e[1] # id /\ e[2] # id
              /\ (\A e \in BagToSet(follows) : \A k \in {1, 2} : \E u \in users : u.id = e[k])
                   => (\A e \in BagToSet(follows') : \A k \in {1, 2} :
                         \E u \in users' : u.id = e[k])]_vars

(***************************************************************************)
(* C13: a presented token that is unsigned, expired, lacks the id, the     *)
(* username or the email claim, or whose id is no valid identifier, is     *)
(* always answered 401 'Could not validate credentials' and never fails in *)
(* any other way.                                                          *)
(***************************************************************************)
C13_MalformedTokenRejectedAsCredentials ==
    [][((RequestStep("me") \/ RequestStep("delete"))
          /\ ~(/\ resp'.token.signed
               /\ ~(resp'.token.exp < now)
               /\ CarriesAllClaims(resp'.token)))
       => /\ resp'.status = 401
          /\ resp'.detail = credentials_detail]_vars

(***************************************************************************)
(* C14: in every reachable state, signups in flight and re-registration    *)
(* after a delete included, no two stored accounts share a username and    *)
(* no two stored accounts share an email.                                  *)
(***************************************************************************)
C14_UsernamesAndEmailsUnique ==
    \A u, v \in users :
        (u.username = v.username \/ u.email = v.email) => u = v

\* A new account has just re-registered the username and email of the deleted
\* account whose token the client still holds.
C14_Witness ==
    /\ resp.op = "signup"
    /\ resp.status = 200
    /\ held.signed
    /\ held.username = resp.username
    /\ held.email = resp.email
    /\ UUID(held.id) # UUID(resp.token.id)
    /\ OwnerOf(held) = {}
    /\ OwnerOf(resp.token) # {}

(***************************************************************************)
(* C17: when a signup whose lookup found no conflict inserts after another *)
(* signup has stored its username or its email, the insert is refused by   *)
(* the unique constraint: the request is answered 500, not 409, nothing is *)
(* stored for it, and exactly one account holds the contested username or  *)
(* email; an insert that meets no conflict stores exactly one account.     *)
(***************************************************************************)
C17_SignupRaceLoserGetsServerError ==
    [][(resp'.op = "signup" /\ pending' # pending /\ pending' \subseteq pending)
       => /\ (UsernameTaken(resp'.username) \/ EmailTaken(resp'.email))
               => /\ resp'.status = 500
                  /\ resp'.detail = "Internal Server Error"
                  /\ resp'.token = NoToken
                  /\ UNCHANGED store
          /\ ~(UsernameTaken(resp'.username) \/ EmailTaken(resp'.email))
               => /\ resp'.status = 200
                  /\ Cardinality(users' \ users) = 1
          /\ Cardinality({u \in users' : u.username = resp'.username}) <= 1
          /\ Cardinality({u \in users' : u.email = resp'.email}) <= 1
          /\ Cardinality({u \in users' : u.username = resp'.username
                                         \/ u.email = resp'.email}) >= 1]_vars

\* The late insert lost: its username is stored once, under the other request's email.
C17_Witness ==
    /\ resp.op = "signup"
    /\ resp.status = 500
    /\ Cardinality({u \in users : u.username = resp.username}) = 1
    /\ \A u \in users : u.username = resp.username => u.email # resp.email

(***************************************************************************)
(* C15: whenever the service called by a route raises a domain error, the  *)
(* route answers with the fixed status and message of that error: 409 for  *)
(* the two signup conflicts, 404 for UserNotFound on login, follow and     *)
(* unfollow, 403 for AlreadyFollowing and CannotFollowSelf on follow and   *)
(* for NotFollowing and CannotUnFollowSelf on unfollow; none is answered   *)
(* as an unhandled error.                                                  *)
(***************************************************************************)
DomainErrorAnswers ==
    {<<"signup", "EmailAlreadyRegistered", 409, "Email is already registered">>,
     <<"signup", "UsernameAlreadyRegistered", 409, "Username is already registered">>,
     <<"login", "UserNotFound", 404, "User not found">>,
     <<"follow", "UserNotFound", 404, "User not found">>,
     <<"follow", "AlreadyFollowing", 403, "You are already following this user">>,
     <<"follow", "CannotFollowSelf", 403, "User can't follow themselves">>,
     <<"unfollow", "UserNotFound", 404, "User not found">>,
     <<"unfollow", "NotFollowing", 403, "User can't unfollow user they dont follow">>,
     <<"unfollow", "CannotUnFollowSelf", 403, "User can't unfollow themselves">>}

\* The outcomes the service of the route op has for the request answered by resp'.
ServiceOutcomes(op) ==
    LET payload == [username |-> resp'.username, email |-> resp'.email,
                    password |-> resp'.password]
        auth == get_current_user(resp'.token, now)
    IN  CASE op = "signup" -> auth_service_create_user(payload)
                                \cup user_service_create_user(payload)
          [] op = "login" -> {authenticate_user(payload).exc}
          [] op = "follow" ->
               IF auth.status # 200 THEN {"ok"}
               ELSE UNION {{o.exc : o \in follow_user_check(cu, resp'.username)} :
                           cu \in auth.user}
          [] op = "unfollow" ->
               IF auth.status # 200 THEN {"ok"}
               ELSE UNION {{o.exc : o \in unfollow_user_check(cu, resp'.username)} :
                           cu \in auth.user}

C15_DomainErrorsMapped ==
    [][\A op \in {"signup", "login", "follow", "unfollow"} :
         (RequestStep(op) /\ "ok" \notin ServiceOutcomes(op))
         => /\ \E exc \in ServiceOutcomes(op) :
                 <<op, exc, resp'.status, resp'.detail>> \in DomainErrorAnswers
            /\ resp'.status # 500
            /\ UNCHANGED store]_vars

C15_Witness ==
    /\ resp.op = "unfollow"
    /\ resp.status = 403
    /\ resp.detail = "User can't unfollow themselves"
    /\ OwnerOf(resp.token) # {}

(***************************************************************************)
(* C16: a signed token that verification rejects, because the clock is     *)
(* past its expiry instant or because its subject is not stored, is        *)
(* rejected after every further step as well: no signup (re-registering    *)
(* the same username and email included), login, delete or passage of      *)
(* time makes the same token verify again.                                 *)
(***************************************************************************)
C16_TokenNeverReturnsToValid ==
    [][\A token \in {held, resp.token} :
         (token.signed /\ get_current_user(token, now).status # 200)
            => get_current_user(token, now)'.status # 200]_vars

\* The held token is refused although an account with its username and email
\* is stored again under a new id.
C16_Witness ==
    /\ resp.op = "me"
    /\ resp.status = 401
    /\ resp.token = held
    /\ held.signed
    /\ CarriesAllClaims(held)
    /\ ~(held.exp < now)
    /\ OwnerOf(held) = {}
    /\ \E u \in users : u.username = held.username /\ u.email = held.email

(***************************************************************************)
(* Inputs the validation refuses, spelled out for the properties           *)
(***************************************************************************)
BadUsername(username) ==
    username = None \/ Len(username) < 3 \/ Len(username) > 50

BadPayload(r) ==
    \/ BadUsername(r.username)
    \/ r.email = None \/ r.email \in InvalidEmails
    \/ r.password = None \/ Len(r.password) < 8

C19_FollowAddsExactlyOneEdge ==
    [][RequestStep("follow")
       => /\ \A a \in get_current_user(resp'.token, now).user :
               \A b \in users :
                 (/\ get_current_user(resp'.token, now).status = 200
                  /\ b.username = resp'.username
                  /\ b # a
                  /\ ~BagIn(<<a.id, b.id>>, follows))
                    => resp'.status = 200
          /\ resp'.status = 200
               => \E a \in OwnerOf(resp'.token), b \in users :
                    /\ b.username = resp'.username
                    /\ a # b
                    /\ ~BagIn(<<a.id, b.id>>, follows)
                    /\ resp'.edge = <<a.id, b.id>>
                    /\ follows' = follows (+) SetToBag({<<a.id, b.id>>})
                    /\ CopiesIn(<<b.id, a.id>>, follows') = CopiesIn(<<b.id, a.id>>, follows)
                    /\ users' = users]_vars

\* A follows B while B does not follow A.
C19_Witness ==
    /\ resp.op = "follow"
    /\ resp.status = 200
    /\ BagIn(resp.edge, follows)
    /\ resp.edge[1] = UUID(resp.token.id)
    /\ ~BagIn(<<resp.edge[2], resp.edge[1]>>, follows)

C21_EmailNamedWhenTwoRowsCollide ==
    [][(/\ RequestStep("signup")
        /\ \E u, v \in users : /\ u # v
                               /\ u.username = resp'.username
                               /\ v.email = resp'.email)
       => /\ resp'.status = 409
          /\ resp'.detail = email_detail]_vars

(***************************************************************************)
(* C22: when a follow request whose duplicate-edge lookup found no edge    *)
(* inserts after another request of the same caller has stored the same    *)
(* edge, the insert is refused by the unique constraint: the request is    *)
(* answered with the generic server error, not with 'You are already       *)
(* following this user', the edges stay as they are, and no step ever      *)
(* leaves more than one edge for a (follower, followed) pair.              *)
(***************************************************************************)
C22_FollowRaceLoserGetsServerError ==
    [][/\ (resp'.op = "follow" /\ pending' # pending)
            => \A p \in pending :
                 pending' = pending \ {p}
                 => LET e == <<p.follower, p.followed>>
                    IN  /\ BagIn(e, follows)
                             => /\ resp'.status = 500
                                /\ resp'.detail = "Internal Server Error"
                                /\ resp'.detail # "You are already following this user"
                                /\ UNCHANGED store
                        /\ resp'.status = 200
                             => /\ ~BagIn(e, follows)
                                /\ follows' = follows (+) SetToBag({e})
       /\ follows' # follows
            => \A e \in BagToSet(follows') : CopiesIn(e, follows') <= 1]_vars

\* The late insert lost: the edge of the caller to the named account is
\* stored once, both accounts are stored, and the answer is the server error.
C22_Witness ==
    /\ resp.op = "follow"
    /\ resp.status = 500
    /\ resp.detail = "Internal Server Error"
    /\ pending = {}
    /\ \E a \in OwnerOf(resp.token), b \in users :
         /\ b.username = resp.username
         /\ a # b
         /\ CopiesIn(<<a.id, b.id>>, follows) = 1

(***************************************************************************)
(* The routes, one request at a time, with one refused value of each input *)
(* among the requests, so that every status of the routes occurs.          *)
(***************************************************************************)
SignupSomeInvalid ==
    SignupRequest(Usernames \cup {"ab"}, Emails \cup {"not-an-email"},
                  SignupPasswords \cup {"short"})

LoginSomeInvalid == LoginRequest(Usernames, Emails, Passwords \cup {"short"})

FollowSomeInvalid == FollowRequest(Usernames \cup {"ab"})

UnfollowSomeInvalid == UnfollowRequest(Usernames \cup {"ab"})

NextFrame ==
    \/ SignupSomeInvalid
    \/ LoginSomeInvalid
    \/ Me
    \/ Delete
    \/ FollowSomeInvalid
    \/ UnfollowSomeInvalid
    \/ delete_all_users
    \/ KeepToken

SpecFrame == Init /\ [][NextFrame]_vars

(***************************************************************************)
(* C23: a login, successful or not and however often repeated, a GET       *)
(* /users/me, and every request answered 401, 403, 404, 409 or 422 leave   *)
(* the accounts and the follow edges exactly as they were; a request that  *)
(* changes them is a signup, a delete (of the caller, or of all accounts   *)
(* by the system helper), a follow or an unfollow answered 200.            *)
(***************************************************************************)
C23_OnlySuccessfulMutationsChangeStore ==
    [][\A op \in {"signup", "login", "me", "delete", "follow", "unfollow",
                  "delete_all_users"} :
         RequestStep(op)
         => /\ (op \in {"login", "me"} \/ resp'.status \in {401, 403, 404, 409, 422})
                 => UNCHANGED store
            /\ ~(UNCHANGED store)
                 => /\ resp'.status = 200
                    /\ op \in {"signup", "delete", "follow", "unfollow",
                               "delete_all_users"}]_vars

\* A login has succeeded for the account whose token the client already holds,
\* and nothing was stored for it.
C23_Witness ==
    /\ resp.op = "login"
    /\ resp.status = 200
    /\ held = resp.token
    /\ Cardinality(users) = 1
    /\ nextId = 2

(***************************************************************************)
(* Requests in flight between the token dependency and the route function: *)
(* get_current_user has returned the caller's row, the service has not yet *)
(* run.  Other requests are served in between.                             *)
(***************************************************************************)
ResolveCaller ==
    \E token \in Presentable :
        LET auth == get_current_user(token, now)
        IN  /\ auth.status = 200
            /\ Cardinality(pending) < MaxPending
            /\ \E current_user \in auth.user :
                 pending' = pending \cup {[token |-> token, current_user |-> current_user]}
            /\ UNCHANGED <<users, follows, nextId, now, held, resp, fk_enforced>>

FollowResolved ==
    \E p \in pending, username_to_follow \in Usernames :
    \E out \in follow_user_check(p.current_user, username_to_follow) :
        /\ pending' = pending \ {p}
        /\ IF out.exc # "ok"
           THEN /\ resp' = Response("follow", route_status("follow", out.exc),
                                    route_detail("follow", out.exc),
                                    username_to_follow, "", "", p.token)
                /\ UNCHANGED follows
           ELSE IF crud_follow_user_ok(p.current_user.id, out.target)
           THEN /\ follows' = follows (+)
                       SetToBag({crud_follow_user(p.current_user.id, out.target)})
                /\ resp' = FollowResponse(username_to_follow, p.token,
                               crud_follow_user(p.current_user.id, out.target))
           ELSE /\ resp' = Response("follow", 500, message("IntegrityError"),
                                    username_to_follow, "", "", p.token)
                /\ UNCHANGED follows
        /\ UNCHANGED <<users, nextId, now, held, fk_enforced>>

UnfollowResolved ==
    \E p \in pending, username_to_unfollow \in Usernames :
    \E out \in unfollow_user_check(p.current_user, username_to_unfollow) :
        /\ pending' = pending \ {p}
        /\ IF out.exc # "ok"
           THEN /\ resp' = Response("unfollow", route_status("unfollow", out.exc),
                                    route_detail("unfollow", out.exc),
                                    username_to_unfollow, "", "", p.token)
                /\ UNCHANGED follows
           ELSE /\ follows' = crud_unfollow_user(<<p.current_user.id, out.target>>)
                /\ resp' = Response("unfollow", 200, "", username_to_unfollow,
                                    "", "", p.token)
        /\ UNCHANGED <<users, nextId, now, held, fk_enforced>>

NextCallerRace ==
    \/ Signup
    \/ Login
    \/ Delete
    \/ KeepToken
    \/ ResolveCaller
    \/ FollowResolved
    \/ UnfollowResolved

SpecCallerRace == Init /\ [][NextCallerRace]_vars

(***************************************************************************)
(* C24: in every reachable state, for the caller a follow or unfollow      *)
(* request runs as and every stored account its target username may        *)
(* resolve to, the caller's username equals the target's username exactly  *)
(* when the caller's id equals the target's id.                            *)
(***************************************************************************)
C24_SelfTestAgreesWithIds ==
    /\ \A current_user \in users, target \in users :
         (current_user.username = target.username) <=> (current_user.id = target.id)
    /\ \A p \in pending, target \in users :
         (p.current_user.username = target.username) <=> (p.current_user.id = target.id)

(***************************************************************************)
(* C25: from every reachable store and for every payload, valid or         *)
(* refused, each answer and resulting store that POST /auth/signup can     *)
(* produce for it POST /users/signup can produce as well, and conversely:  *)
(* the same token and new account on success, the same 409 and message on  *)
(* a conflict, the same 422.  Stated of each signup step: whichever route  *)
(* served it, either route given its payload takes the same step.          *)
(***************************************************************************)
C25_SignupRoutesInterchangeable ==
    [][RequestStep("signup")
       => \A route \in Routes :
            SignupVia(route, {resp'.username}, {resp'.email}, {resp'.password})]_vars

\* A signup was refused for a field that one stored account has while its
\* other field is free or belongs to another account.
C25_Witness ==
    /\ resp.op = "signup"
    /\ resp.status = 409
    /\ Cardinality(users) = 2
    /\ \E u \in users :
         /\ (u.username = resp.username) # (u.email = resp.email)
         /\ resp.detail = IF u.email = resp.email THEN email_detail ELSE username_detail

(***************************************************************************)
(* C26: the token checks run in the order signature, expiry, required      *)
(* claims, subject: a signed token that is past its expiry instant and     *)
(* whose subject is no longer stored is answered with the expiry outcome,  *)
(* 401 'Token has expired', and a signed token is answered as having no    *)
(* subject, 401 'Could not validate credentials', only when it is          *)
(* unexpired and carries all claims and its subject is not stored.         *)
(***************************************************************************)
C26_ExpiryCheckedBeforeSubject ==
    [][((RequestStep("me") \/ RequestStep("delete")) /\ resp'.token.signed)
       => /\ (resp'.token.exp < now /\ OwnerOf(resp'.token) = {})
               => /\ resp'.status = 401
                  /\ resp'.detail = expired_detail
          /\ (resp'.status = 401 /\ resp'.detail = credentials_detail)
               => /\ ~(resp'.token.exp < now)
                  /\ CarriesAllClaims(resp'.token) => OwnerOf(resp'.token) = {}]_vars

(***************************************************************************)
(* C27: when the account of the caller or of the target of a follow        *)
(* request is deleted after the request has resolved both and before it    *)
(* inserts, the insert leaves no edge in the store whose follower or       *)
(* followed account is not stored: every edge a follow request adds has    *)
(* both its accounts in the store.                                         *)
(***************************************************************************)
C27_FollowNeverInsertsDanglingEdge ==
    [][\A p \in pending :
         (resp'.op = "follow" /\ pending' # pending /\ pending' = pending \ {p})
         => LET e == <<p.follower, p.followed>>
            IN  (CopiesIn(e, follows') > CopiesIn(e, follows))
                  => /\ \E u \in users' : u.id = p.follower
                     /\ \E u \in users' : u.id = p.followed]_vars

(***************************************************************************)
(* C28: whenever the token dependency accepts a token, the route runs as   *)
(* the stored account whose id is the token's subject id, and that account *)
(* is the one the token was issued to: it has the token's id, username and *)
(* email, GET /users/me answers with its fields and DELETE /users/delete   *)
(* removes it and no other.  A new account never receives the subject id   *)
(* of a token issued before, so a token issued to a deleted account is     *)
(* never accepted for an account that registers its username and email.    *)
(***************************************************************************)
C28_AcceptedTokenRunsAsItsSubject ==
    [][/\ ((RequestStep("me") \/ RequestStep("delete")) /\ resp'.status = 200)
            => /\ CarriesAllClaims(resp'.token)
               /\ \E u \in users :
                    /\ u.id = UUID(resp'.token.id)
                    /\ u.username = resp'.token.username
                    /\ u.email = resp'.token.email
                    /\ resp'.username = u.username
                    /\ resp'.op = "me" => /\ resp'.email = u.email
                                          /\ users' = users
                    /\ resp'.op = "delete" => users' = users \ {u}
       /\ \A new \in users' \ users :
            /\ new.id >= nextId
            /\ nextId' > new.id
            /\ \A token \in {held, resp.token} :
                 (token.signed /\ CarriesAllClaims(token))
                    => UUID(token.id) # new.id]_vars

\* The route runs as the second account; the first was deleted before.
C28_Witness ==
    /\ resp.op = "me"
    /\ resp.status = 200
    /\ resp.token.signed
    /\ UUID(resp.token.id) = 2
    /\ users = {u \in users : u.id = 2 /\ u.username = resp.username}
    /\ Cardinality(users) = 1

(***************************************************************************)
(* C29: follow and unfollow are inverse on the edges.  A follow answered   *)
(* 200 adds one edge that was not there; an unfollow of the same account   *)
(* by the same caller right after it, answered 200, gives back exactly the *)
(* (follower, followed) pairs there were before the follow; and a follow   *)
(* of the same account by the same caller right after that unfollow is     *)
(* answered 200 again, not 'You are already following this user'.          *)
(***************************************************************************)
C29_UnfollowUndoesFollow ==
    [][/\ (RequestStep("follow") /\ resp'.status = 200)
            => /\ ~BagIn(resp'.edge, follows)
               /\ BagToSet(follows') = BagToSet(follows) \cup {resp'.edge}
       /\ (/\ RequestStep("unfollow") /\ resp'.status = 200
           /\ resp.op = "follow" /\ resp.status = 200
           /\ resp'.token = resp.token /\ resp'.username = resp.username)
            => /\ BagToSet(follows') = BagToSet(follows) \ {resp.edge}
               /\ users' = users
       /\ (/\ RequestStep("follow")
           /\ resp.op = "unfollow" /\ resp.status = 200
           /\ resp'.token = resp.token /\ resp'.username = resp.username)
            => /\ resp'.status = 200
               /\ resp'.detail # "You are already following this user"]_vars

\* The caller has unfollowed the only account they followed: both accounts
\* are stored and there is no edge left.
C29_Witness ==
    /\ resp.op = "unfollow"
    /\ resp.status = 200
    /\ follows = EmptyBag
    /\ \E a \in OwnerOf(resp.token), b \in users : a # b /\ b.username = resp.username

====
